---- MODULE Spec2Model ----
(***************************************************************************)
(* A model of src/src/lib.rs: the MessageItem value model, its marshaling  *)
(* codec over the transport's message iterator, and the Connection's       *)
(* dispatch queue with its pull iterator.                                  *)
(*                                                                         *)
(* Two specifications share the module:                                    *)
(*   CodecSpec  a Message whose body is written by append_items and read   *)
(*              by get_items;                                              *)
(*   Spec       a Connection: inbound messages, the two callbacks, the     *)
(*              pending_items queue and ConnectionItems::next.             *)
(***************************************************************************)
EXTENDS Integers, Sequences, FiniteSets, TLC

VARIABLES
    \* ---- codec (CodecSpec) ----
    cpc,            \* where the caller of the Message is: "idle" | "new" |
                    \* "appended" | "received" | "decoded" | "panicked"
    items,          \* the slice handed to append_items
    body,           \* the message body held by the transport (wire nodes)
    decoded,        \* the Vec returned by get_items
    fault,          \* the panic that ended the last operation, or "none"
    log,            \* the transport calls append_items made, in order
    env,            \* which container call of the encode the transport refuses
    origin,         \* "constructed" (Message::new_*), "received" (from_ptr) or
                    \* "reencoded" (constructed to carry decoded items)
    \* ---- connection (Spec) ----
    pending_items,  \* IConnection.pending_items
    incoming,       \* messages the transport holds, not yet dispatched
    alive,          \* the transport's connection is open
    registered,     \* object paths registered on the connection
    calls,          \* history: each callback invocation, in order
    yielded,        \* history: what each poll of the iterator returned
    last,           \* the last poll's steps
    nextId,         \* next inbound message number
    \* ---- messages and iterators of a Connection (LifeSpec) ----
    iterator,       \* the ConnectionItems the caller holds, if any
    held,           \* the Messages the application owns
    bufs,           \* the transport's message buffers, by message number
    where           \* history: the operation each callback ran inside

codecVars == <<cpc, items, body, decoded, fault, log, env, origin>>
connVars == <<pending_items, incoming, alive, registered, calls, yielded,
              last, nextId>>
lifeVars == <<iterator, held, bufs, where>>
vars == <<cpc, items, body, decoded, fault, log, env, origin, pending_items, incoming,
          alive, registered, calls, yielded, last, nextId, iterator, held, bufs,
          where>>

----------------------------------------------------------------------------
(* Wire type tags: the ffi constants the code matches on (ASCII codes).     *)

DBUS_TYPE_INVALID == 0
DBUS_TYPE_ARRAY == 97
DBUS_TYPE_BOOLEAN == 98
DBUS_TYPE_DOUBLE == 100
DBUS_TYPE_DICT_ENTRY == 101
DBUS_TYPE_INT32 == 105
DBUS_TYPE_INT16 == 110
DBUS_TYPE_UINT16 == 113
DBUS_TYPE_STRUCT == 114
DBUS_TYPE_STRING == 115
DBUS_TYPE_UINT64 == 116
DBUS_TYPE_UINT32 == 117
DBUS_TYPE_VARIANT == 118
DBUS_TYPE_INT64 == 120
DBUS_TYPE_BYTE == 121

\* The braces of the format string "{{{}{}}}" (lib.rs:148).
DICT_ENTRY_BEGIN_CHAR == 123
DICT_ENTRY_END_CHAR == 125

\* The declared type the tests pass for "no declared type" (lib.rs:662, 668).
Unspecified == -1

----------------------------------------------------------------------------
(* enum MessageItem                                                         *)

Array(a, t) == [kind |-> "Array", items |-> a, t |-> t]
Variant(x) == [kind |-> "Variant", inner |-> x]
DictEntry(k, v) == [kind |-> "DictEntry", key |-> k, value |-> v]
Str(s) == [kind |-> "Str", s |-> s]
Bool(b) == [kind |-> "Bool", n |-> b]
Byte(n) == [kind |-> "Byte", n |-> n]
Int16(n) == [kind |-> "Int16", n |-> n]
Int32(n) == [kind |-> "Int32", n |-> n]
Int64(n) == [kind |-> "Int64", n |-> n]
UInt16(n) == [kind |-> "UInt16", n |-> n]
UInt32(n) == [kind |-> "UInt32", n |-> n]
UInt64(n) == [kind |-> "UInt64", n |-> n]

\* MessageItem::array_type
array_type(m) ==
    CASE m.kind = "Str" -> DBUS_TYPE_STRING
      [] m.kind = "Bool" -> DBUS_TYPE_BOOLEAN
      [] m.kind = "Byte" -> DBUS_TYPE_BYTE
      [] m.kind = "Int16" -> DBUS_TYPE_INT16
      [] m.kind = "Int32" -> DBUS_TYPE_INT32
      [] m.kind = "Int64" -> DBUS_TYPE_INT64
      [] m.kind = "UInt16" -> DBUS_TYPE_UINT16
      [] m.kind = "UInt32" -> DBUS_TYPE_UINT32
      [] m.kind = "UInt64" -> DBUS_TYPE_UINT64
      [] m.kind = "Array" -> DBUS_TYPE_ARRAY
      [] m.kind = "Variant" -> DBUS_TYPE_VARIANT
      [] m.kind = "DictEntry" -> DBUS_TYPE_DICT_ENTRY

----------------------------------------------------------------------------
(* Fixed-width values.  An i64 is its eight little-endian bytes; a cast    *)
(* keeps the low bytes; the transport copies as many bytes as the wire     *)
(* type is wide.                                                            *)

\* Bytes the transport reads or writes for a basic type.
BasicWidth(tag) ==
    CASE tag = DBUS_TYPE_BYTE -> 1
      [] tag \in {DBUS_TYPE_INT16, DBUS_TYPE_UINT16} -> 2
      [] tag \in {DBUS_TYPE_BOOLEAN, DBUS_TYPE_INT32, DBUS_TYPE_UINT32} -> 4
      [] tag \in {DBUS_TYPE_INT64, DBUS_TYPE_UINT64} -> 8

RECURSIVE LEBytes(_, _)
\* The n low bytes of the two's complement of v, least significant first.
LEBytes(v, n) ==
    IF n = 0 THEN <<>> ELSE <<v % 256>> \o LEBytes(v \div 256, n - 1)

\* `b as i64` for an integer payload.
as_i64(x) == LEBytes(x, 8)

\* `b as i64` for a bool.
bool_as_i64(b) == IF b THEN 1 ELSE 0

RECURSIVE Unsigned(_)
Unsigned(b) == IF b = <<>> THEN 0 ELSE Head(b) + 256 * Unsigned(Tail(b))

RECURSIVE Signed(_)
Signed(b) ==
    IF Len(b) = 1 THEN (IF b[1] >= 128 THEN b[1] - 256 ELSE b[1])
    ELSE Head(b) + 256 * Signed(Tail(b))

\* `c as uN` and `c as iN` for an i64 c given as its bytes.
as_unsigned(c, nbytes) == Unsigned(SubSeq(c, 1, nbytes))
as_signed(c, nbytes) == Signed(SubSeq(c, 1, nbytes))

\* str.to_c_str(): the bytes and a terminating NUL.
to_c_str(s) == s \o <<0>>

RECURSIVE UntilNul(_)
\* CString::new(c, false).to_string(): the bytes before the first NUL.
UntilNul(c) ==
    IF c = <<>> \/ Head(c) = 0 THEN <<>> ELSE <<Head(c)>> \o UntilNul(Tail(c))

----------------------------------------------------------------------------
(* The transport's message body: a sequence of wire nodes.                  *)

WBasic(tag, data) == [tag |-> tag, data |-> data, sig |-> <<>>, sub |-> <<>>]
WContainer(tag, sig, sub) == [tag |-> tag, data |-> <<>>, sig |-> sig, sub |-> sub]

----------------------------------------------------------------------------
(* Encoding.  An encoder state is the append iterator and what the encode  *)
(* has done so far:                                                         *)
(*   out     the nodes appended at the iterator's position                  *)
(*   fault   "none", or the panic that unwound the encode                   *)
(*   opens, closes   container calls made so far                            *)
(*   ret     the last container call's return value                         *)
(*   log     the transport calls, in order                                  *)
(*   failOpen, failClose   the open (close) call the transport refuses,     *)
(*           0 for none                                                     *)

NewAppendIter(b, e) ==
    [out |-> b, fault |-> "none", opens |-> 0, closes |-> 0, ret |-> 1,
     log |-> <<>>, failOpen |-> e.failOpen, failClose |-> e.failClose]

Panic(st, msg) == [st EXCEPT !.fault = msg]

\* ffi::dbus_message_iter_append_basic: the return value is not looked at.
append_basic(st, tag, data) ==
    [st EXCEPT !.out = Append(@, WBasic(tag, data)),
               !.log = Append(@, <<"basic", tag>>)]

\* ffi::dbus_message_iter_open_container: the sub-iterator, or ret = 0.
open_container(st, tag, sig) ==
    LET n == st.opens + 1 IN
    IF n = st.failOpen
    THEN [st EXCEPT !.opens = n, !.ret = 0,
                    !.log = Append(@, <<"open_failed", tag, sig>>)]
    ELSE [st EXCEPT !.opens = n, !.ret = 1, !.out = <<>>,
                    !.log = Append(@, <<"open", tag, sig>>)]

\* ffi::dbus_message_iter_close_container: sub is closed into the iterator
\* whose nodes are parentOut.
close_container(parentOut, sub, tag, sig) ==
    LET n == sub.closes + 1 IN
    IF n = sub.failClose
    THEN [sub EXCEPT !.closes = n, !.ret = 0,
                     !.log = Append(@, <<"close_failed", tag>>)]
    ELSE [sub EXCEPT !.closes = n, !.ret = 1,
                     !.out = Append(parentOut, WContainer(tag, sig, sub.out)),
                     !.log = Append(@, <<"close", tag>>)]

\* format!("{}", t as u8 as char)
TagChar(t) == t % 256

\* The signature iter_append_array opens the container with (a non-empty
\* when t <= 0).
array_signature(a, t) ==
    IF t <= 0
    THEN IF a[1].kind = "DictEntry"
         THEN <<DICT_ENTRY_BEGIN_CHAR, TagChar(array_type(a[1].key)),
                TagChar(array_type(a[1].value)), DICT_ENTRY_END_CHAR>>
         ELSE <<TagChar(array_type(a[1]))>>
    ELSE <<TagChar(t)>>

elem_type_unchecked(t, item) == TRUE

\* The condition of the assert on each element, lib.rs:158.
elem_type_ok(t, item) == t < 0 \/ array_type(item) = t

\* MessageItem::iter_append_basic
iter_append_basic(self, st, v) ==
    LET t == array_type(self) IN
    append_basic(st, t, SubSeq(as_i64(v), 1, BasicWidth(t)))

RECURSIVE iter_append(_, _)

RECURSIVE append_elements(_, _, _)
\* The for loop of iter_append_array over the elements of a.
append_elements(a, t, st) ==
    IF a = <<>> \/ st.fault # "none" THEN st
    ELSE IF ~elem_type_ok(t, Head(a)) THEN Panic(st, "assert_element_type")
    ELSE append_elements(Tail(a), t, iter_append(Head(a), st))

iter_append_array(st, a, t) ==
    IF t <= 0 /\ a = <<>> THEN Panic(st, "index_out_of_bounds")
    ELSE
      LET atype == array_signature(a, t)
          o == open_container(st, DBUS_TYPE_ARRAY, atype)
      IN IF o.ret = 0 THEN Panic(o, "assert_open")
         ELSE LET s == append_elements(a, t, o) IN
              IF s.fault # "none" THEN s
              ELSE LET c == close_container(st.out, s, DBUS_TYPE_ARRAY, atype)
                   IN IF c.ret = 0 THEN Panic(c, "assert_close") ELSE c

iter_append_variant_unclosed(st, a) ==
    LET atype == <<TagChar(array_type(a))>>
        o == open_container(st, DBUS_TYPE_VARIANT, atype)
    IN IF o.ret = 0 THEN Panic(o, "assert_open")
       ELSE LET s == iter_append(a, o) IN
            IF s.fault # "none" THEN s
            ELSE [s EXCEPT !.out = Append(st.out, WContainer(DBUS_TYPE_VARIANT, atype, s.out))]

iter_append_variant(st, a) ==
    LET atype == <<TagChar(array_type(a))>>
        o == open_container(st, DBUS_TYPE_VARIANT, atype)
    IN IF o.ret = 0 THEN Panic(o, "assert_open")
       ELSE LET s == iter_append(a, o) IN
            IF s.fault # "none" THEN s
            ELSE LET c == close_container(st.out, s, DBUS_TYPE_VARIANT, atype)
                 IN IF c.ret = 0 THEN Panic(c, "assert_close") ELSE c

iter_append_dict_value_first(st, k, v) ==
    LET o == open_container(st, DBUS_TYPE_DICT_ENTRY, <<>>)
    IN IF o.ret = 0 THEN Panic(o, "assert_open")
       ELSE LET sv == iter_append(v, o)
                sk == IF sv.fault # "none" THEN sv ELSE iter_append(k, sv)
            IN IF sk.fault # "none" THEN sk
               ELSE LET c == close_container(st.out, sk, DBUS_TYPE_DICT_ENTRY, <<>>)
                    IN IF c.ret = 0 THEN Panic(c, "assert_close") ELSE c

iter_append_dict(st, k, v) ==
    LET o == open_container(st, DBUS_TYPE_DICT_ENTRY, <<>>)
    IN IF o.ret = 0 THEN Panic(o, "assert_open")
       ELSE LET sk == iter_append(k, o)
                sv == IF sk.fault # "none" THEN sk ELSE iter_append(v, sk)
            IN IF sv.fault # "none" THEN sv
               ELSE LET c == close_container(st.out, sv, DBUS_TYPE_DICT_ENTRY, <<>>)
                    IN IF c.ret = 0 THEN Panic(c, "assert_close") ELSE c

\* MessageItem::iter_append
iter_append(self, st) ==
    CASE self.kind = "Str" ->
           IF \E j \in 1..Len(self.s) : self.s[j] = 0
           THEN Panic(st, "interior_nul")
           ELSE append_basic(st, DBUS_TYPE_STRING, to_c_str(self.s))
      [] self.kind = "Array" -> iter_append_array(st, self.items, self.t)
      [] self.kind = "Variant" -> iter_append_variant(st, self.inner)
      [] self.kind = "DictEntry" -> iter_append_dict(st, self.key, self.value)
      [] self.kind = "Bool" -> iter_append_basic(self, st, bool_as_i64(self.n))
      [] OTHER -> iter_append_basic(self, st, self.n)

RECURSIVE copy_to_iter(_, _)
\* MessageItem::copy_to_iter
copy_to_iter(st, v) ==
    IF v = <<>> \/ st.fault # "none" THEN st
    ELSE copy_to_iter(iter_append(Head(v), st), Tail(v))

\* Message::append_items: the encoder state after the call.
append_items(b, v, e) == copy_to_iter(NewAppendIter(b, e), v)

----------------------------------------------------------------------------
(* Decoding.  from_iter returns [fault, v]: the panic that unwound it, or  *)
(* "none" and the Vec it built.                                             *)

Ok(v) == [fault |-> "none", v |-> v]
Fail(msg) == [fault |-> msg, v |-> <<>>]

\* iter_get_basic: c starts as 0 and the transport writes the value's bytes.
iter_get_basic(node) ==
    node.data \o [j \in 1..(8 - Len(node.data)) |-> 0]

dict_entry_len_below_two(a) == Len(a) < 2

\* lib.rs:210, the test that rejects a dict entry.
dict_entry_len_bad(a) == Len(a) # 2

variant_len_zero(a) == Len(a) = 0

\* lib.rs:220, the test that rejects a variant.
variant_len_bad(a) == Len(a) # 1

container_type(a) == DBUS_TYPE_ARRAY

\* lib.rs:227, the declared type given to a decoded array.
first_element_type(a) == IF Len(a) > 0 THEN array_type(a[1]) ELSE 0

RECURSIVE from_iter(_)

\* One turn of from_iter's loop: the item pushed for the node under the
\* cursor.
from_iter_item(node) ==
    LET t == node.tag IN
    CASE t = DBUS_TYPE_DICT_ENTRY ->
           LET a == from_iter(node.sub) IN
           IF a.fault # "none" THEN a
           ELSE IF dict_entry_len_bad(a.v) THEN Fail("DBus dict entry error")
           ELSE Ok(DictEntry(a.v[1], a.v[2]))
      [] t = DBUS_TYPE_VARIANT ->
           LET a == from_iter(node.sub) IN
           IF a.fault # "none" THEN a
           ELSE IF variant_len_bad(a.v) THEN Fail("DBus variant error")
           ELSE Ok(Variant(a.v[1]))
      [] t = DBUS_TYPE_ARRAY ->
           LET a == from_iter(node.sub) IN
           IF a.fault # "none" THEN a
           ELSE Ok(Array(a.v, first_element_type(a.v)))
      [] t = DBUS_TYPE_STRING -> Ok(Str(UntilNul(node.data)))
      [] t = DBUS_TYPE_BOOLEAN -> Ok(Bool(as_unsigned(iter_get_basic(node), 4) # 0))
      [] t = DBUS_TYPE_BYTE -> Ok(Byte(as_unsigned(iter_get_basic(node), 1)))
      [] t = DBUS_TYPE_INT16 -> Ok(Int16(as_signed(iter_get_basic(node), 2)))
      [] t = DBUS_TYPE_INT32 -> Ok(Int32(as_signed(iter_get_basic(node), 4)))
      [] t = DBUS_TYPE_INT64 -> Ok(Int64(as_signed(iter_get_basic(node), 8)))
      [] t = DBUS_TYPE_UINT16 -> Ok(UInt16(as_unsigned(iter_get_basic(node), 2)))
      [] t = DBUS_TYPE_UINT32 -> Ok(UInt32(as_unsigned(iter_get_basic(node), 4)))
      [] t = DBUS_TYPE_UINT64 -> Ok(UInt64(as_unsigned(iter_get_basic(node), 8)))
      [] OTHER -> Fail("DBus unsupported message type")

\* MessageItem::from_iter: the cursor runs over w until the transport
\* reports DBUS_TYPE_INVALID, the end of w.
from_iter(w) ==
    IF w = <<>> THEN Ok(<<>>)
    ELSE LET h == from_iter_item(Head(w)) IN
         IF h.fault # "none" THEN h
         ELSE LET r == from_iter(Tail(w)) IN
              IF r.fault # "none" THEN r ELSE Ok(<<h.v>> \o r.v)

\* ffi::dbus_message_iter_init: 0 when the message has no arguments.
iter_init(b) == IF b = <<>> THEN 0 ELSE 1

\* Message::get_items
get_items(b) == IF iter_init(b) = 0 THEN Ok(<<>>) ELSE from_iter(b)

----------------------------------------------------------------------------
(* Bounds and the inputs drawn within them.                                 *)

MaxLen == 2     \* elements of an Array handed to append_items
MaxWire == 3    \* children of a container in a received body
MaxFail == 2    \* the transport may refuse container call 1..MaxFail

SeqsUpTo(S, n) == UNION {[1..k -> S] : k \in 0..n}

hi == <<104, 105>>
hello == <<104, 101, 108, 108, 111>>

Scalars ==
    {Byte(129), Bool(TRUE), Int16(-2), Int32(-1), Int64(-3), UInt16(2000),
     UInt32(7), UInt64(987654321), Str(hi), Str(<<104, 0, 105>>)}

Keys == {UInt32(7), Str(hi)}

ElemScalars == {Byte(129), Byte(7), Str(hi), UInt16(2000)}

Level1 ==
    {Variant(x) : x \in Scalars}
    \cup {DictEntry(k, v) : k \in Keys, v \in Scalars}
    \cup {Array(a, t) : a \in SeqsUpTo(ElemScalars, MaxLen),
                        t \in {Unspecified, 0, DBUS_TYPE_BYTE, DBUS_TYPE_STRING}}

Nested ==
    {Byte(129), Variant(Byte(129)), Array(<<Byte(129)>>, Unspecified),
     Array(<<>>, DBUS_TYPE_BYTE), DictEntry(UInt32(7), Bool(TRUE)),
     DictEntry(Str(hi), Byte(129))}

Level2 ==
    {Variant(x) : x \in Nested}
    \cup {DictEntry(k, v) : k \in Keys, v \in Nested}
    \cup {Array(a, t) : a \in SeqsUpTo(Nested, MaxLen),
                        t \in {Unspecified, DBUS_TYPE_ARRAY, DBUS_TYPE_VARIANT,
                               DBUS_TYPE_DICT_ENTRY}}

\* The items of test::message_types, with the payloads of the end-to-end
\* scenario.
EndToEnd ==
    <<UInt16(2000), Array(<<Byte(129)>>, Unspecified), UInt64(987654321),
      Int32(-1), Str(hello),
      Array(<<DictEntry(UInt32(7), Bool(TRUE))>>, Unspecified)>>

ItemSeqs ==
    {<<>>, EndToEnd} \cup {<<v>> : v \in Scalars \cup Level1 \cup Level2}

Envs ==
    {[failOpen |-> o, failClose |-> c] :
        o \in 0..MaxFail, c \in {0}}
    \cup {[failOpen |-> 0, failClose |-> c] : c \in 1..MaxFail}

\* Received bodies: well-formed ones and ones a peer or the transport got
\* wrong (a container with the wrong number of children, a type this layer
\* does not handle).
WLeaves ==
    {WBasic(DBUS_TYPE_BYTE, <<129>>), WBasic(DBUS_TYPE_STRING, to_c_str(hi)),
     WBasic(DBUS_TYPE_DOUBLE, <<0, 0, 0, 0, 0, 0, 240, 63>>)}

ContainerTags ==
    {DBUS_TYPE_ARRAY, DBUS_TYPE_VARIANT, DBUS_TYPE_DICT_ENTRY, DBUS_TYPE_STRUCT}

W1 == {WContainer(tag, <<>>, sub) : tag \in ContainerTags,
                                    sub \in SeqsUpTo(WLeaves, MaxWire)}

WNested ==
    {WBasic(DBUS_TYPE_BYTE, <<129>>),
     WContainer(DBUS_TYPE_ARRAY, <<>>, <<>>),
     WContainer(DBUS_TYPE_VARIANT, <<>>, <<WBasic(DBUS_TYPE_BYTE, <<129>>)>>),
     WContainer(DBUS_TYPE_DICT_ENTRY, <<>>,
                <<WBasic(DBUS_TYPE_STRING, to_c_str(hi)),
                  WBasic(DBUS_TYPE_BYTE, <<129>>)>>),
     WContainer(DBUS_TYPE_DICT_ENTRY, <<>>, <<WBasic(DBUS_TYPE_BYTE, <<129>>)>>)}

W2 == {WContainer(tag, <<>>, sub) : tag \in ContainerTags \ {DBUS_TYPE_STRUCT},
                                    sub \in SeqsUpTo(WNested, MaxLen)}

ReceivedBodies == {<<>>} \cup {<<n>> : n \in WLeaves \cup W1 \cup W2}

----------------------------------------------------------------------------
(* The Connection.  A message is [id, kind, path]; the queue holds         *)
(* ConnectionItems.                                                         *)

MaxMsgs == 3    \* inbound messages over the connection's life
MaxPolls == 4   \* polls of the iterator

NoMsg == [id |-> 0, kind |-> "none", path |-> "none"]

\* enum ConnectionItem, and None for Option<ConnectionItem>.
Nothing == [item |-> "Nothing", msg |-> NoMsg]
MethodCall(m) == [item |-> "MethodCall", msg |-> m]
Signal(m) == [item |-> "Signal", msg |-> m]
None == [item |-> "None", msg |-> NoMsg]

\* What the callbacks leave behind: the queue and the handler result.
CbResult(q, r) == [q |-> q, r |-> r]

filter_message_cb_queues_calls(q, m) ==
    IF m.kind = "Signal" THEN CbResult(Append(q, Signal(m)), "Handled")
    ELSE IF m.kind = "MethodCall" THEN CbResult(Append(q, MethodCall(m)), "Handled")
    ELSE CbResult(q, "NotYetHandled")

filter_message_cb_push_front(q, m) ==
    IF m.kind = "Signal" THEN CbResult(<<Signal(m)>> \o q, "Handled")
    ELSE CbResult(q, "NotYetHandled")

filter_message_cb(q, m) ==
    IF m.kind = "Signal" THEN CbResult(Append(q, Signal(m)), "Handled")
    ELSE CbResult(q, "NotYetHandled")

object_path_message_cb_push_front(q, m) ==
    CbResult(<<MethodCall(m)>> \o q, "Handled")

object_path_message_cb(q, m) == CbResult(Append(q, MethodCall(m)), "Handled")

\* One entry of the calls history: which callback ran on which message,
\* what it returned and what it left at the back of the queue.
CallRecord(cb, m, before, res) ==
    [cb |-> cb, msg |-> m, r |-> res.r,
     pushed |-> IF Len(res.q) > Len(before) THEN res.q[Len(res.q)] ELSE None]

\* The transport dispatches one inbound message: the filter added in
\* get_private sees it; if the filter declines it and the message is
\* addressed to a registered object path, that path's message_function runs.
Dispatch(q, reg, m) ==
    LET f == filter_message_cb(q, m)
        fc == CallRecord("filter", m, q, f)
    IN IF f.r = "Handled" \/ m.path \notin reg
       THEN [q |-> f.q, calls |-> <<fc>>]
       ELSE LET o == object_path_message_cb(f.q, m)
            IN [q |-> o.q, calls |-> <<fc, CallRecord("object_path", m, f.q, o)>>]

RECURSIVE DispatchAll(_, _, _)
DispatchAll(q, reg, ms) ==
    IF ms = <<>> THEN [q |-> q, calls |-> <<>>]
    ELSE LET d == Dispatch(q, reg, Head(ms))
             rest == DispatchAll(d.q, reg, Tail(ms))
         IN [q |-> rest.q, calls |-> d.calls \o rest.calls]

\* ffi::dbus_connection_read_write_dispatch: k of the waiting messages are
\* dispatched; the result is 0 once the connection is closed and nothing is
\* left to dispatch.
read_write_dispatch(q, inc, alv, reg, k) ==
    LET d == DispatchAll(q, reg, SubSeq(inc, 1, k))
        left == SubSeq(inc, k + 1, Len(inc))
    IN [q |-> d.q, calls |-> d.calls, inc |-> left,
        r |-> IF alv \/ left # <<>> THEN 1 ELSE 0]

step_result_always_none(r) == None

step_result_swapped(r) == IF r = 0 THEN Nothing ELSE None

\* lib.rs:406-407
step_result(r) == IF r = 0 THEN None ELSE Nothing

after_dispatch_result_first(q, r) ==
    IF r = 0 THEN [ret |-> None, q |-> q]
    ELSE IF q # <<>> THEN [ret |-> Head(q), q |-> Tail(q)]
    ELSE [ret |-> Nothing, q |-> q]

\* lib.rs:404-407: with items in the queue the loop goes round and pops the
\* front one; otherwise the step's result decides.
after_dispatch(q, r) ==
    IF q # <<>> THEN [ret |-> Head(q), q |-> Tail(q)]
    ELSE [ret |-> step_result(r), q |-> q]

\* ConnectionItems::next
next(q, inc, alv, reg, k) ==
    IF q # <<>>
    THEN [ret |-> Head(q), q |-> Tail(q), inc |-> inc, blocked |-> FALSE,
          r |-> 1, calls |-> <<>>, pushed |-> <<>>]
    ELSE LET d == read_write_dispatch(q, inc, alv, reg, k)
             a == after_dispatch(d.q, d.r)
         IN [ret |-> a.ret, q |-> a.q, inc |-> d.inc, blocked |-> TRUE,
             r |-> d.r, calls |-> d.calls, pushed |-> d.q]

MsgKinds ==
    {[kind |-> "Signal", path |-> "/hello"],
     [kind |-> "MethodCall", path |-> "/hello"],
     [kind |-> "MethodReturn", path |-> "/hello"],
     [kind |-> "Error", path |-> "none"]}

----------------------------------------------------------------------------
(* Specification of the Connection.                                         *)

\* No iterator obtained, no Message made or received.
LifeIdle ==
    /\ iterator = [live |-> FALSE, n |-> 0, carried |-> <<>>, start |-> 0]
    /\ held = {}
    /\ bufs = <<>>
    /\ where = <<>>

CodecIdle ==
    /\ cpc = "idle" /\ items = <<>> /\ body = <<>> /\ decoded = <<>>
    /\ fault = "none" /\ log = <<>> /\ origin = "constructed"
    /\ env = [failOpen |-> 0, failClose |-> 0]

\* Connection::get_private
Init ==
    /\ pending_items = <<>>
    /\ incoming = <<>>
    /\ alive = TRUE
    /\ registered = {}
    /\ calls = <<>>
    /\ yielded = <<>>
    /\ last = [blocked |-> FALSE, r |-> 1, pushed |-> <<>>, before |-> <<>>,
               after |-> <<>>, ret |-> None]
    /\ nextId = 1
    /\ CodecIdle
    /\ LifeIdle

\* A peer's message reaches the transport.
Arrive(mk) ==
    /\ alive
    /\ nextId <= MaxMsgs
    /\ incoming' = Append(incoming, [id |-> nextId, kind |-> mk.kind, path |-> mk.path])
    /\ nextId' = nextId + 1
    /\ UNCHANGED <<pending_items, alive, registered, calls, yielded, last>>
    /\ UNCHANGED codecVars
    /\ UNCHANGED lifeVars

\* The bus goes away.
Disconnect ==
    /\ alive
    /\ alive' = FALSE
    /\ UNCHANGED <<pending_items, incoming, registered, calls, yielded, last, nextId>>
    /\ UNCHANGED codecVars
    /\ UNCHANGED lifeVars

\* Connection::register_object_path
RegisterObjectPath ==
    /\ alive
    /\ "/hello" \notin registered
    /\ registered' = registered \cup {"/hello"}
    /\ UNCHANGED <<pending_items, incoming, alive, calls, yielded, last, nextId>>
    /\ UNCHANGED codecVars
    /\ UNCHANGED lifeVars

\* Connection::unregister_object_path
UnregisterObjectPath ==
    /\ "/hello" \in registered
    /\ registered' = registered \ {"/hello"}
    /\ UNCHANGED <<pending_items, incoming, alive, calls, yielded, last, nextId>>
    /\ UNCHANGED codecVars
    /\ UNCHANGED lifeVars

\* c.iter(timeout).next()
Poll(k) ==
    /\ Len(yielded) < MaxPolls
    /\ pending_items # <<>> => k = 0
    /\ LET n == next(pending_items, incoming, alive, registered, k) IN
       /\ pending_items' = n.q
       /\ incoming' = n.inc
       /\ calls' = calls \o n.calls
       /\ yielded' = Append(yielded, n.ret)
       /\ last' = [blocked |-> n.blocked, r |-> n.r, pushed |-> n.pushed,
                   before |-> pending_items, after |-> n.q, ret |-> n.ret]
    /\ UNCHANGED <<alive, registered, nextId>>
    /\ UNCHANGED codecVars
    /\ UNCHANGED lifeVars

Next ==
    \/ \E mk \in MsgKinds : Arrive(mk)
    \/ Disconnect
    \/ RegisterObjectPath
    \/ UnregisterObjectPath
    \/ \E k \in 0..Len(incoming) : Poll(k)

Spec == Init /\ [][Next]_vars

----------------------------------------------------------------------------
(* Specification of the codec: one Message, constructed here and filled    *)
(* by append_items, or received from the transport, then read by           *)
(* get_items.                                                               *)

ConnIdle ==
    /\ pending_items = <<>> /\ incoming = <<>> /\ alive = TRUE
    /\ registered = {} /\ calls = <<>> /\ yielded = <<>> /\ nextId = 1
    /\ last = [blocked |-> FALSE, r |-> 1, pushed |-> <<>>, before |-> <<>>,
               after |-> <<>>, ret |-> None]

\* Message::new_method_call, then the caller picks what to append.
InitConstructed ==
    /\ origin = "constructed"
    /\ cpc = "new"
    /\ items \in ItemSeqs
    /\ env \in Envs
    /\ body = <<>>

\* Message::from_ptr on a message the transport received.
InitReceived ==
    /\ origin = "received"
    /\ cpc = "received"
    /\ items = <<>>
    /\ env = [failOpen |-> 0, failClose |-> 0]
    /\ body \in ReceivedBodies

CodecInit ==
    /\ InitConstructed \/ InitReceived
    /\ decoded = <<>> /\ fault = "none" /\ log = <<>>
    /\ ConnIdle
    /\ LifeIdle

\* m.append_items(items)
AppendItems ==
    /\ cpc = "new"
    /\ LET st == append_items(body, items, env) IN
       /\ body' = st.out
       /\ fault' = st.fault
       /\ log' = st.log
       /\ cpc' = IF st.fault = "none" THEN "appended" ELSE "panicked"
    /\ UNCHANGED <<items, decoded, env, origin>>
    /\ UNCHANGED connVars
    /\ UNCHANGED lifeVars

\* m.get_items()
GetItems ==
    /\ cpc \in {"appended", "received"}
    /\ LET r == get_items(body) IN
       /\ decoded' = r.v
       /\ fault' = r.fault
       /\ cpc' = IF r.fault = "none" THEN "decoded" ELSE "panicked"
    /\ UNCHANGED <<items, body, log, env, origin>>
    /\ UNCHANGED connVars
    /\ UNCHANGED lifeVars

\* m2.append_items(m.get_items().as_slice()) on a new Message m2: the items
\* decoded from one message are appended to another, which the transport
\* lets every container call of succeed on.
ReEncode ==
    /\ cpc = "decoded"
    /\ origin # "reencoded"
    /\ LET st == append_items(<<>>, decoded, [failOpen |-> 0, failClose |-> 0]) IN
       /\ body' = st.out
       /\ fault' = st.fault
       /\ log' = st.log
       /\ cpc' = IF st.fault = "none" THEN "appended" ELSE "panicked"
    /\ items' = decoded
    /\ decoded' = <<>>
    /\ origin' = "reencoded"
    /\ env' = [failOpen |-> 0, failClose |-> 0]
    /\ UNCHANGED connVars
    /\ UNCHANGED lifeVars

CodecNext == AppendItems \/ GetItems \/ ReEncode

CodecSpec == CodecInit /\ [][CodecNext]_vars

----------------------------------------------------------------------------
(* Properties of the codec (under CodecSpec).                               *)

\* The declared type get_items gives an empty array (lib.rs:227).
EmptyArrayType == 0

TagOf(m) == array_type(m)

RECURSIVE Normalise(_)
\* m with every Array's declared type replaced by its first element's tag
\* (EmptyArrayType for an empty one).
Normalise(m) ==
    CASE m.kind = "Array" ->
           Array([j \in 1..Len(m.items) |-> Normalise(m.items[j])],
                 IF m.items = <<>> THEN EmptyArrayType ELSE TagOf(m.items[1]))
      [] m.kind = "Variant" -> Variant(Normalise(m.inner))
      [] m.kind = "DictEntry" -> DictEntry(Normalise(m.key), Normalise(m.value))
      [] OTHER -> m

NormaliseSeq(v) == [j \in 1..Len(v) |-> Normalise(v[j])]

\* The element signature an array container is opened with for element e.
ShallowSig(e) ==
    IF e.kind = "DictEntry" THEN <<DBUS_TYPE_DICT_ENTRY, TagOf(e.key), TagOf(e.value)>>
    ELSE <<TagOf(e)>>

RECURSIVE Uniform(_)
\* Every Array in m holds elements of one signature.
Uniform(m) ==
    CASE m.kind = "Array" ->
           \A j \in 1..Len(m.items) :
               /\ ShallowSig(m.items[j]) = ShallowSig(m.items[1])
               /\ Uniform(m.items[j])
      [] m.kind = "Variant" -> Uniform(m.inner)
      [] m.kind = "DictEntry" -> Uniform(m.key) /\ Uniform(m.value)
      [] OTHER -> TRUE

RECURSIVE ArraysIn(_)
\* The Array values in m, m included.
ArraysIn(m) ==
    CASE m.kind = "Array" ->
           {m} \cup UNION {ArraysIn(m.items[j]) : j \in 1..Len(m.items)}
      [] m.kind = "Variant" -> ArraysIn(m.inner)
      [] m.kind = "DictEntry" -> ArraysIn(m.key) \cup ArraysIn(m.value)
      [] OTHER -> {}

ArraysOf(v) == UNION {ArraysIn(v[j]) : j \in 1..Len(v)}

\* The encode ran to its end.
Encoded == origin = "constructed" /\ cpc \in {"appended", "decoded"}

\* Values nested at most one level deep.
Shallow(v) == \A j \in 1..Len(v) : v[j] \in Scalars \cup Level1 \/ v = EndToEnd

\* C1 as stated (here on scalars, containers of scalars and the end-to-end
\* sequence): get_items returns a sequence equal to the one append_items
\* was given, declared element types included.
C1_RoundTripExact ==
    (origin = "constructed" /\ cpc = "decoded" /\ Shallow(items))
    => decoded = items

\* C1 as amended: when append_items has run to its end on items whose arrays
\* each hold elements of one signature, get_items returns the items with
\* every Array's declared element type replaced by the tag of its first
\* element (0 for an empty array); all other fields are equal.
C1_RoundTripNormalised ==
    (/\ origin = "constructed"
     /\ cpc = "decoded"
     /\ \A j \in 1..Len(items) : Uniform(items[j]))
    => decoded = NormaliseSeq(items)

C1_Witness ==
    /\ origin = "constructed"
    /\ cpc = "decoded"
    /\ items = EndToEnd
    /\ decoded = NormaliseSeq(EndToEnd)
    /\ decoded # items

\* An Array whose elements do not all carry its effective declared type:
\* the declared type, or the first element's tag when none is declared.
Mixed(a) ==
    LET eff == IF a.t <= 0 THEN TagOf(a.items[1]) ELSE a.t IN
    \E j \in 1..Len(a.items) : TagOf(a.items[j]) # eff

SupportedTags ==
    {DBUS_TYPE_DICT_ENTRY, DBUS_TYPE_VARIANT, DBUS_TYPE_ARRAY, DBUS_TYPE_STRING,
     DBUS_TYPE_BOOLEAN, DBUS_TYPE_BYTE, DBUS_TYPE_INT16, DBUS_TYPE_INT32,
     DBUS_TYPE_INT64, DBUS_TYPE_UINT16, DBUS_TYPE_UINT32, DBUS_TYPE_UINT64}

RECURSIVE WellFormed(_)
\* A wire node of a supported type whose dict entries have two children and
\* whose variants have one, all the way down.
WellFormed(node) ==
    /\ node.tag \in SupportedTags
    /\ node.tag = DBUS_TYPE_DICT_ENTRY => Len(node.sub) = 2
    /\ node.tag = DBUS_TYPE_VARIANT => Len(node.sub) = 1
    /\ \A j \in 1..Len(node.sub) : WellFormed(node.sub[j])

AllWellFormed(w) == \A j \in 1..Len(w) : WellFormed(w[j])

\* get_items has been called on a received message.
Read == origin = "received" /\ cpc \in {"decoded", "panicked"}

\* C3: a dict-entry container is decoded only with exactly two elements, to
\* DictEntry(first, second); a variant container only with exactly one, to
\* Variant(that element); any other count is rejected.
C3_FixedArity ==
    Read =>
      /\ cpc = "decoded" => AllWellFormed(body)
      /\ \A j \in 1..Len(body) :
           LET node == body[j] IN
           (node.tag = DBUS_TYPE_DICT_ENTRY /\ AllWellFormed(node.sub)) =>
             IF Len(node.sub) = 2
             THEN /\ cpc = "decoded"
                  /\ decoded[j].kind = "DictEntry"
                  /\ <<decoded[j].key>> = get_items(<<node.sub[1]>>).v
                  /\ <<decoded[j].value>> = get_items(<<node.sub[2]>>).v
                  /\ TagOf(decoded[j].key) = node.sub[1].tag
                  /\ TagOf(decoded[j].value) = node.sub[2].tag
             ELSE cpc = "panicked" /\ fault = "DBus dict entry error"
      /\ \A j \in 1..Len(body) :
           LET node == body[j] IN
           (node.tag = DBUS_TYPE_VARIANT /\ AllWellFormed(node.sub)) =>
             IF Len(node.sub) = 1
             THEN /\ cpc = "decoded"
                  /\ decoded[j].kind = "Variant"
                  /\ <<decoded[j].inner>> = get_items(node.sub).v
             ELSE cpc = "panicked" /\ fault = "DBus variant error"

C3_Witness ==
    /\ Read
    /\ cpc = "panicked"
    /\ fault = "DBus dict entry error"
    /\ body[1].tag = DBUS_TYPE_DICT_ENTRY
    /\ Len(body[1].sub) = 3

RECURSIVE TypedByFirst(_)
\* Every Array in m declares its first element's tag, an empty one
\* EmptyArrayType.
TypedByFirst(m) ==
    CASE m.kind = "Array" ->
           /\ m.t = IF m.items = <<>> THEN EmptyArrayType ELSE TagOf(m.items[1])
           /\ \A j \in 1..Len(m.items) : TypedByFirst(m.items[j])
      [] m.kind = "Variant" -> TypedByFirst(m.inner)
      [] m.kind = "DictEntry" -> TypedByFirst(m.key) /\ TypedByFirst(m.value)
      [] OTHER -> TRUE

\* C4: an array container with no elements is decoded without a fault to
\* Array(<<>>, 0), 0 being no type tag and read as "no declared type" by the
\* encoder's signature inference (t <= 0); a non-empty array container is
\* decoded to an Array that declares the tag of its first element.
C4_EmptyArrayDecode ==
    /\ cpc = "decoded" => \A j \in 1..Len(decoded) : TypedByFirst(decoded[j])
    /\ Read =>
         \A j \in 1..Len(body) :
           (body[j].tag = DBUS_TYPE_ARRAY /\ AllWellFormed(body[j].sub)) =>
             /\ cpc = "decoded"
             /\ decoded[j].kind = "Array"
             /\ Len(decoded[j].items) = Len(body[j].sub)
             /\ body[j].sub = <<>> =>
                  /\ decoded[j] = Array(<<>>, EmptyArrayType)
                  /\ EmptyArrayType \notin SupportedTags
                  /\ EmptyArrayType <= 0
             /\ body[j].sub # <<>> => decoded[j].t = body[j].sub[1].tag

C4_Witness ==
    /\ Read
    /\ body = <<WContainer(DBUS_TYPE_ARRAY, <<>>, <<>>)>>
    /\ cpc = "decoded"
    /\ decoded = <<Array(<<>>, 0)>>


DecodeFaults ==
    {"DBus dict entry error", "DBus variant error", "DBus unsupported message type"}

EncodeFaults ==
    {"assert_open", "assert_close", "assert_element_type", "index_out_of_bounds",
     "interior_nul"}

\* The operation came back to its caller with a value.
Returned == cpc \in {"appended", "decoded"}

\* C9 as stated: an operation that faulted still returns to its caller, the
\* fault being a value of its result.
C9_FaultsAreResults == fault # "none" => Returned

\* C9 as amended: a decoding or encoding fault is a panic: the operation
\* does not return (get_items hands back no Vec), the fault names its cause,
\* and the failing transport call is the last one made (nothing is
\* retried).  A received body that is malformed anywhere, a refused
\* container open and a refused close each end this way.
C9_FaultsArePanics ==
    /\ fault # "none" <=> cpc = "panicked"
    /\ cpc = "panicked" =>
         /\ decoded = <<>>
         /\ origin = "received" => fault \in DecodeFaults
         /\ origin = "constructed" => fault \in EncodeFaults
    /\ Read /\ ~AllWellFormed(body) => cpc = "panicked"
    /\ \A j \in 1..Len(log) :
         log[j][1] \in {"open_failed", "close_failed"} =>
           /\ j = Len(log)
           /\ cpc = "panicked"
           /\ fault = IF log[j][1] = "open_failed" THEN "assert_open" ELSE "assert_close"

C9_Witness ==
    /\ Read
    /\ cpc = "panicked"
    /\ fault = "DBus unsupported message type"
    /\ decoded = <<>>

----------------------------------------------------------------------------
(* Properties of the Connection (under Spec).                               *)

Msgs(q) == [j \in 1..Len(q) |-> q[j].msg]

IsInbound(it) == it.item \in {"Signal", "MethodCall"}

\* The messages the iterator has yielded, then those still queued.
Output == Msgs(SelectSeq(yielded, IsInbound)) \o Msgs(pending_items)

IsFilterCall(c) == c.cb = "filter"

\* Every dispatched message, in dispatch order: the filter sees each one.
Dispatched == SelectSeq(calls, IsFilterCall)

IsCallOrSignal(c) == c.msg.kind \in {"Signal", "MethodCall"}

IsQueued(c) ==
    \/ c.cb = "filter" /\ c.msg.kind = "Signal"
    \/ c.cb = "object_path"

Polled == yielded # <<>>

\* C7: a poll that finds the queue empty runs the transport's blocking
\* step; when the step pushes nothing and reports the connection open, the
\* poll yields Nothing (the empty tick) and leaves the queue empty.  Nothing
\* ends the iteration: the poll after a tick runs the step again and yields
\* what it brings.
C7_TimeoutTick ==
    Polled =>
      /\ last.before = <<>> => last.blocked
      /\ (last.blocked /\ last.pushed = <<>> /\ last.r # 0) =>
           last.ret = Nothing /\ last.after = <<>> /\ pending_items = <<>>

C7_Witness ==
    /\ Len(yielded) >= 2
    /\ yielded[Len(yielded) - 1] = Nothing
    /\ last.blocked
    /\ last.ret.item = "Signal"

C10_DrainBeforeBlock ==
    Polled =>
      /\ last.before # <<>> =>
           /\ ~last.blocked
           /\ last.ret = Head(last.before)
           /\ last.after = Tail(last.before)
      /\ last.blocked => last.before = <<>>
      /\ (last.blocked /\ last.pushed # <<>>) =>
           /\ last.ret = Head(last.pushed)
           /\ last.after = Tail(last.pushed)
      /\ last.ret \in {Nothing, None} =>
           last.before = <<>> /\ last.pushed = <<>> /\ last.after = <<>>

C10_Witness ==
    /\ Polled
    /\ last.blocked
    /\ last.r = 0
    /\ Len(last.pushed) >= 2
    /\ last.ret = Head(last.pushed)
    /\ pending_items = Tail(last.pushed)

----------------------------------------------------------------------------
(* Messages and iterators over the life of a Connection (LifeSpec).  A     *)
(* buffer is [rc, owned, over]: the transport's reference count, the        *)
(* references among them that belong to this layer, and whether it was     *)
(* released once more than it was referenced.                               *)

MaxBufs == 2    \* message buffers: received, constructed and replies
MaxIters == 2   \* iterators obtained with iter()
MaxNexts == 2   \* polls of those iterators

\* ffi::dbus_message_new_*, and the reply of
\* ffi::dbus_connection_send_with_reply_and_block: one reference, the
\* caller's.
NewBuffer == [rc |-> 1, owned |-> 1, over |-> FALSE]

\* A message the transport read from the socket: one reference, its own.
InboundBuffer == [rc |-> 1, owned |-> 0, over |-> FALSE]

\* The transport takes and drops references of its own (a message in its
\* incoming or outgoing queue).
transport_ref(b, id) == [b EXCEPT ![id].rc = @ + 1]

transport_unref(b, id) ==
    IF b[id].rc = 0 THEN [b EXCEPT ![id].over = TRUE]
    ELSE [b EXCEPT ![id].rc = @ - 1]

\* ffi::dbus_message_ref and ffi::dbus_message_unref called by this layer.
dbus_message_ref(b, id) == [b EXCEPT ![id].rc = @ + 1, ![id].owned = @ + 1]

dbus_message_unref(b, id) ==
    IF b[id].rc = 0 THEN [b EXCEPT ![id].over = TRUE, ![id].owned = @ - 1]
    ELSE [b EXCEPT ![id].rc = @ - 1, ![id].owned = @ - 1]

from_ptr_never_refs(b, id, add_ref) == b

\* Message::from_ptr
from_ptr(b, id, add_ref) == IF add_ref THEN dbus_message_ref(b, id) ELSE b

\* Drop for Message
drop(b, id) == dbus_message_unref(b, id)

\* The references one callback invocation takes and gives back: m is
\* from_ptr(msg, true) (lib.rs:428, 458) and is dropped when the callback
\* returns unless it was moved into the queue.
callback_refs(b, c) ==
    LET w == from_ptr(b, c.msg.id, TRUE) IN
    IF c.pushed = None THEN drop(w, c.msg.id) ELSE w

RECURSIVE callbacks_of(_, _, _)
\* The callbacks run on message m, applied to the buffers in order.
callbacks_of(b, cs, m) ==
    IF cs = <<>> THEN b
    ELSE callbacks_of(IF Head(cs).msg = m THEN callback_refs(b, Head(cs)) ELSE b,
                      Tail(cs), m)

RECURSIVE dispatched(_, _, _)
\* The transport has dispatched the messages ms, running the callbacks cs:
\* after the callbacks of a message it drops its own reference to it.
dispatched(b, cs, ms) ==
    IF ms = <<>> THEN b
    ELSE dispatched(transport_unref(callbacks_of(b, cs, Head(ms)), Head(ms).id),
                    cs, Tail(ms))

\* Connection::iter
iter(q, n, at) == [live |-> TRUE, n |-> n + 1, carried |-> q, start |-> at]

\* Connection::send.  r is the result of ffi::dbus_connection_send, which
\* queues the message (a reference of the transport's own); the flush
\* writes it out and lets k waiting messages be dispatched.  The Message is
\* dropped when send returns.
send(q, inc, reg, b, m, r, k) ==
    IF r = 0
    THEN [q |-> q, inc |-> inc, calls |-> <<>>, bufs |-> drop(b, m.id), ok |-> FALSE]
    ELSE LET d == DispatchAll(q, reg, SubSeq(inc, 1, k))
             sent == transport_unref(transport_ref(b, m.id), m.id)
             b2 == dispatched(sent, d.calls, SubSeq(inc, 1, k))
         IN [q |-> d.q, inc |-> SubSeq(inc, k + 1, Len(inc)), calls |-> d.calls,
             bufs |-> drop(b2, m.id), ok |-> TRUE]

\* Connection::send_with_reply_and_block.  The transport sends the message
\* and blocks; k waiting messages are dispatched meanwhile; response is the
\* number of the reply's buffer, 0 for a null pointer.  The Message is
\* dropped when the call returns.
send_with_reply_and_block(q, inc, reg, b, m, response, k) ==
    LET d == DispatchAll(q, reg, SubSeq(inc, 1, k))
        sent == transport_unref(transport_ref(b, m.id), m.id)
        b2 == dispatched(sent, d.calls, SubSeq(inc, 1, k))
        b3 == IF response = 0 THEN b2 ELSE from_ptr(Append(b2, NewBuffer), response, FALSE)
    IN [q |-> d.q, inc |-> SubSeq(inc, k + 1, Len(inc)), calls |-> d.calls,
        bufs |-> drop(b3, m.id), ok |-> response # 0]

\* The kinds of message a peer sends here: one the filter queues, one it
\* leaves to a registered object path, one nobody handles.
InboundKinds == {mk \in MsgKinds : mk.kind # "MethodReturn"}

Outgoing(id) == [id |-> id, kind |-> "MethodCall", path |-> "/out"]
Reply(id) == [id |-> id, kind |-> "MethodReturn", path |-> "none"]

\* Message::new_method_call
NewMessage ==
    /\ nextId <= MaxBufs
    /\ bufs' = Append(bufs, NewBuffer)
    /\ held' = held \cup {Outgoing(nextId)}
    /\ nextId' = nextId + 1
    /\ UNCHANGED <<pending_items, incoming, alive, registered, calls, yielded, last>>
    /\ UNCHANGED <<iterator, where>>
    /\ UNCHANGED codecVars

\* A peer's message reaches the transport, which holds it until dispatch.
Receive(mk) ==
    /\ alive
    /\ nextId <= MaxBufs
    /\ incoming' = Append(incoming, [id |-> nextId, kind |-> mk.kind, path |-> mk.path])
    /\ bufs' = Append(bufs, InboundBuffer)
    /\ nextId' = nextId + 1
    /\ UNCHANGED <<pending_items, alive, registered, calls, yielded, last>>
    /\ UNCHANGED <<iterator, held, where>>
    /\ UNCHANGED codecVars

\* c.iter(timeout): the iterator borrows the Connection.
Iter ==
    /\ ~iterator.live
    /\ iterator.n < MaxIters
    /\ iterator' = iter(pending_items, iterator.n, Len(yielded))
    /\ UNCHANGED connVars
    /\ UNCHANGED <<held, bufs, where>>
    /\ UNCHANGED codecVars

\* The caller stops polling and lets the iterator go.
Abandon ==
    /\ iterator.live
    /\ iterator' = [iterator EXCEPT !.live = FALSE]
    /\ UNCHANGED connVars
    /\ UNCHANGED <<held, bufs, where>>
    /\ UNCHANGED codecVars

\* ConnectionItems::next on the iterator the caller holds; the item yielded
\* is the application's from then on.
IterNext(k) ==
    /\ iterator.live
    /\ Len(yielded) < MaxNexts
    /\ pending_items # <<>> => k = 0
    /\ LET n == next(pending_items, incoming, alive, registered, k) IN
       /\ pending_items' = n.q
       /\ incoming' = n.inc
       /\ calls' = calls \o n.calls
       /\ yielded' = Append(yielded, n.ret)
       /\ last' = [blocked |-> n.blocked, r |-> n.r, pushed |-> n.pushed,
                   before |-> pending_items, after |-> n.q, ret |-> n.ret]
       /\ bufs' = dispatched(bufs, n.calls,
                             SubSeq(incoming, 1, Len(incoming) - Len(n.inc)))
       /\ held' = IF n.ret.item \in {"Signal", "MethodCall"}
                  THEN held \cup {n.ret.msg} ELSE held
       /\ where' = where \o [j \in 1..Len(n.calls) |-> "next"]
    /\ UNCHANGED <<alive, registered, nextId, iterator>>
    /\ UNCHANGED codecVars

\* c.send(m), with no iterator borrowing c.
Send(m, r, k) ==
    /\ ~iterator.live
    /\ m \in held /\ m.path = "/out"
    /\ LET s == send(pending_items, incoming, registered, bufs, m, r, k) IN
       /\ pending_items' = s.q
       /\ incoming' = s.inc
       /\ calls' = calls \o s.calls
       /\ bufs' = s.bufs
       /\ where' = where \o [j \in 1..Len(s.calls) |-> "send"]
    /\ held' = held \ {m}
    /\ UNCHANGED <<alive, registered, yielded, last, nextId, iterator>>
    /\ UNCHANGED codecVars

\* c.send_with_reply_and_block(m, timeout), with no iterator borrowing c:
\* a reply (while the connection is open) or an error.
SendWithReplyAndBlock(m, response, k) ==
    /\ ~iterator.live
    /\ m \in held /\ m.path = "/out"
    /\ response # 0 => (alive /\ response = nextId /\ nextId <= MaxBufs)
    /\ LET s == send_with_reply_and_block(pending_items, incoming, registered,
                                          bufs, m, response, k) IN
       /\ pending_items' = s.q
       /\ incoming' = s.inc
       /\ calls' = calls \o s.calls
       /\ bufs' = s.bufs
       /\ where' = where \o [j \in 1..Len(s.calls) |-> "send_with_reply_and_block"]
       /\ held' = (held \ {m}) \cup (IF s.ok THEN {Reply(response)} ELSE {})
    /\ nextId' = IF response # 0 THEN nextId + 1 ELSE nextId
    /\ UNCHANGED <<alive, registered, yielded, last, iterator>>
    /\ UNCHANGED codecVars

\* The application lets go of a Message it owns.
DropMessage(m) ==
    /\ m \in held
    /\ held' = held \ {m}
    /\ bufs' = drop(bufs, m.id)
    /\ UNCHANGED connVars
    /\ UNCHANGED <<iterator, where>>
    /\ UNCHANGED codecVars

LifeNext ==
    \/ NewMessage
    \/ \E mk \in InboundKinds : Receive(mk)
    \/ Disconnect
    \/ RegisterObjectPath
    \/ Iter
    \/ Abandon
    \/ \E k \in 0..Len(incoming) : IterNext(k)
    \/ \E m \in held, r \in {0, 1}, k \in 0..Len(incoming) : Send(m, r, k)
    \/ \E m \in held, response \in {0, nextId}, k \in 0..Len(incoming) :
           SendWithReplyAndBlock(m, response, k)
    \/ \E m \in held : DropMessage(m)

LifeSpec == Init /\ [][LifeNext]_vars

----------------------------------------------------------------------------
(* Properties of the Connection over its life (under LifeSpec).             *)

HasPushed(c) == c.pushed # None

\* The items the callback invocations cs appended, in order.
Pushed(cs) ==
    LET p == SelectSeq(cs, HasPushed) IN [j \in 1..Len(p) |-> p[j].pushed]

\* The callback invocations of the step being taken.
NewCalls == SubSeq(calls', Len(calls) + 1, Len(calls'))

\* The item the step hands to the caller, if it is a poll that yields one.
Popped ==
    IF Len(yielded') > Len(yielded) /\ IsInbound(yielded'[Len(yielded')])
    THEN <<yielded'[Len(yielded')]>> ELSE <<>>

\* The inbound items yielded since the current iterator was obtained.
YieldedByIterator ==
    SelectSeq(SubSeq(yielded, iterator.start + 1, Len(yielded)), IsInbound)

IsPrefix(a, b) == Len(a) <= Len(b) /\ SubSeq(b, 1, Len(a)) = a

\* The items that were pending when iter() was called come out of the new
\* iterator first and in order, or are still at the front of the queue.
ResumesWhereLeft ==
    iterator.n > 0 =>
      IsPrefix(iterator.carried, YieldedByIterator \o pending_items)

Wrappers(id) ==
    Cardinality({j \in 1..Len(pending_items) : pending_items[j].msg.id = id})
    + Cardinality({m \in held : m.id = id})

\* The transport's own reference to a message it has not dispatched yet.
InTransport(id) ==
    Cardinality({j \in 1..Len(incoming) : incoming[j].id = id})

\* C14: for every message buffer, the references this layer holds are as
\* many as the live Message wrappers of the buffer (in queued items and in
\* the application's hands); the buffer's reference count is those plus the
\* transport's own, so a buffer a wrapper still refers to is not released,
\* the buffer of a declined message is released once the transport is done
\* with it, and no buffer is released more often than it was referenced.
C14_ReferenceBalance ==
    \A id \in 1..Len(bufs) :
        /\ bufs[id].owned = Wrappers(id)
        /\ bufs[id].rc = Wrappers(id) + InTransport(id)
        /\ ~bufs[id].over
        /\ Wrappers(id) <= 1

C14_Witness ==
    /\ Len(bufs) = 2
    /\ Len(calls) = 2
    /\ calls[1].cb = "filter" /\ calls[1].pushed = None /\ calls[1].msg.id = 1
    /\ bufs[1] = [rc |-> 0, owned |-> 0, over |-> FALSE]
    /\ calls[2].pushed # None /\ calls[2].msg.id = 2
    /\ bufs[2] = [rc |-> 1, owned |-> 1, over |-> FALSE]
    /\ Wrappers(2) = 1

----------------------------------------------------------------------------
(* Properties of the codec, continued (under CodecSpec).                    *)

RECURSIVE FullSignature(_)
RECURSIVE ElementSignature(_)

\* The complete signature of a value: its tag, and for an array the
\* signature of its elements, for a dict entry those of its key and value
\* between braces.  A variant's signature is its tag alone.
FullSignature(m) ==
    CASE m.kind = "Array" -> <<DBUS_TYPE_ARRAY>> \o ElementSignature(m)
      [] m.kind = "DictEntry" ->
           <<DICT_ENTRY_BEGIN_CHAR>> \o FullSignature(m.key)
               \o FullSignature(m.value) \o <<DICT_ENTRY_END_CHAR>>
      [] OTHER -> <<TagOf(m)>>

\* The signature of the elements of array m: that of its first element, the
\* declared tag when it has none.
ElementSignature(m) ==
    IF m.items = <<>> THEN <<TagChar(m.t)>> ELSE FullSignature(m.items[1])

RECURSIVE OpensOf(_)
RECURSIVE OpensOfSeq(_)

\* The Array and Variant containers opened for m, outermost first, each
\* with the signature that describes its contents in full.
OpensOf(m) ==
    CASE m.kind = "Array" ->
           <<<<"open", DBUS_TYPE_ARRAY, ElementSignature(m)>>>> \o OpensOfSeq(m.items)
      [] m.kind = "Variant" ->
           <<<<"open", DBUS_TYPE_VARIANT, FullSignature(m.inner)>>>> \o OpensOf(m.inner)
      [] m.kind = "DictEntry" -> OpensOf(m.key) \o OpensOf(m.value)
      [] OTHER -> <<>>

OpensOfSeq(v) == IF v = <<>> THEN <<>> ELSE OpensOf(Head(v)) \o OpensOfSeq(Tail(v))

IsTypedOpen(e) == e[1] = "open" /\ e[2] \in {DBUS_TYPE_ARRAY, DBUS_TYPE_VARIANT}

\* C12 as stated: in an encode that ran to its end, every Array and Variant
\* container was opened with the signature that describes its contents in
\* full: nested tags for an array of arrays and a variant of an array,
\* "{" key value "}" for an array of dict entries whether its type is
\* unspecified or declared as the dict-entry tag, with the value's own
\* signature when that is a container.
C12_RecursiveSignatures ==
    Encoded => SelectSeq(log, IsTypedOpen) = OpensOfSeq(items)

\* append_items has been called.
Ran == origin # "received" /\ cpc \notin {"idle", "new"}

RECURSIVE CallsOf(_)
RECURSIVE CallsOfSeq(_)

\* The transport calls that append m with every container opened, filled
\* with its children in order (a dict entry's key, then its value) and
\* closed: <<call, tag>> each.
CallsOf(m) ==
    CASE m.kind = "Array" ->
           <<<<"open", DBUS_TYPE_ARRAY>>>> \o CallsOfSeq(m.items)
               \o <<<<"close", DBUS_TYPE_ARRAY>>>>
      [] m.kind = "Variant" ->
           <<<<"open", DBUS_TYPE_VARIANT>>>> \o CallsOf(m.inner)
               \o <<<<"close", DBUS_TYPE_VARIANT>>>>
      [] m.kind = "DictEntry" ->
           <<<<"open", DBUS_TYPE_DICT_ENTRY>>>> \o CallsOf(m.key) \o CallsOf(m.value)
               \o <<<<"close", DBUS_TYPE_DICT_ENTRY>>>>
      [] OTHER -> <<<<"basic", TagOf(m)>>>>

CallsOfSeq(v) == IF v = <<>> THEN <<>> ELSE CallsOf(Head(v)) \o CallsOfSeq(Tail(v))

Refused(e) == e[1] \in {"open_failed", "close_failed"}

\* The calls the encode made, a refused one as the call it was.
Attempts(l) ==
    [j \in 1..Len(l) |->
        <<CASE l[j][1] = "open_failed" -> "open"
            [] l[j][1] = "close_failed" -> "close"
            [] OTHER -> l[j][1],
          l[j][2]>>]

RECURSIVE Unclosed(_, _)
\* The containers left open by the calls l made with the containers s open,
\* innermost first; <<-1>> once a close is not that of the innermost one.
Unclosed(l, s) ==
    IF l = <<>> \/ s = <<-1>> THEN s
    ELSE LET e == Head(l) IN
         CASE e[1] = "open" -> Unclosed(Tail(l), <<e[2]>> \o s)
           [] e[1] = "close" ->
                IF s # <<>> /\ Head(s) = e[2] THEN Unclosed(Tail(l), Tail(s))
                ELSE <<-1>>
           [] OTHER -> Unclosed(Tail(l), s)

\* The calls l with a refused close counted as the close of its container.
CloseCalls(l) ==
    [j \in 1..Len(l) |->
        IF l[j][1] = "close_failed" THEN <<"close", l[j][2]>> ELSE l[j]]

\* C13 as stated: whatever value append_items was given, for every
\* container it opened it has called close, innermost first, with the
\* container's children appended in between; and a refused open ends the
\* encode, nothing being appended after it.
C13_EveryOpenClosed ==
    Ran =>
      /\ Unclosed(CloseCalls(log), <<>>) = <<>>
      /\ IsPrefix(Attempts(log), CallsOfSeq(items))
      /\ \A j \in 1..Len(log) :
           log[j][1] = "open_failed" => j = Len(log) /\ cpc = "panicked"

\* C13 as amended: the encode makes the calls of the value in order - each
\* container opened, its children appended (key, then value), then closed,
\* innermost first - and when append_items returns normally it has made all
\* of them and no container is open.  A fault (a refused open or close, the
\* element-type assertion, a string with an interior NUL, an empty array
\* without declared type) ends the encode where it happens: no call follows
\* the failing one and the containers open at that point are never closed.
C13_PairedUnlessAborted ==
    Ran =>
      /\ IsPrefix(Attempts(log), CallsOfSeq(items))
      /\ Unclosed(log, <<>>) # <<-1>>
      /\ fault = "none" =>
           /\ Attempts(log) = CallsOfSeq(items)
           /\ Unclosed(log, <<>>) = <<>>
           /\ \A j \in 1..Len(log) : ~Refused(log[j])
      /\ fault # "none" =>
           /\ cpc = "panicked"
           /\ Len(Unclosed(log, <<>>)) =
                Cardinality({j \in 1..Len(log) : log[j][1] = "open"})
                - Cardinality({j \in 1..Len(log) : log[j][1] = "close"})
      /\ \A j \in 1..Len(log) :
           Refused(log[j]) =>
             /\ j = Len(log)
             /\ fault = IF log[j][1] = "open_failed" THEN "assert_open" ELSE "assert_close"

C13_Witness ==
    /\ Ran
    /\ items = <<Array(<<DictEntry(UInt32(7), Bool(TRUE))>>, Unspecified)>>
    /\ fault = "assert_open"
    /\ Len(log) = 2
    /\ log[1][1] = "open" /\ log[1][2] = DBUS_TYPE_ARRAY
    /\ log[2][1] = "open_failed" /\ log[2][2] = DBUS_TYPE_DICT_ENTRY
    /\ Unclosed(log, <<>>) = <<DBUS_TYPE_ARRAY>>

RECURSIVE DeclaredOpens(_)
RECURSIVE DeclaredOpensSeq(_)

\* The arrays of m, outermost first, each opened with its declared type as
\* the signature.
DeclaredOpens(m) ==
    CASE m.kind = "Array" ->
           <<<<"open", DBUS_TYPE_ARRAY, <<TagChar(m.t)>>>>>> \o DeclaredOpensSeq(m.items)
      [] m.kind = "Variant" -> DeclaredOpens(m.inner)
      [] m.kind = "DictEntry" -> DeclaredOpens(m.key) \o DeclaredOpens(m.value)
      [] OTHER -> <<>>

DeclaredOpensSeq(v) ==
    IF v = <<>> THEN <<>> ELSE DeclaredOpens(Head(v)) \o DeclaredOpensSeq(Tail(v))

IsArrayOpen(e) == e[1] = "open" /\ e[2] = DBUS_TYPE_ARRAY

\* C15 as stated: the items get_items returned are appended to a new
\* message without a fault, each array opened with the declared type the
\* decoder gave it, and get_items on that message returns equal items.
C15_DecodedReencodes ==
    origin = "reencoded" =>
      /\ fault = "none"
      /\ SelectSeq(log, IsArrayOpen) = DeclaredOpensSeq(items)
      /\ cpc = "decoded" => decoded = items

====
